---- MODULE Spec2Model ----
(***************************************************************************)
(* Model of eventhandlers/nova_evacuate_vms.py: the Nagios event handler   *)
(* that evacuates the VMs of a failed compute node.  The script is one     *)
(* sequential process; pc is its position, the other variables are the     *)
(* script's own variables, the cloud it talks to (status) and the calls    *)
(* it has made (identity_calls, compute_calls, evacuate_calls, ...).       *)
(***************************************************************************)
EXTENDS Integers, Sequences, FiniteSets, TLC

\* ------------------------------------------------------------------ bounds
MaxServiceRecords == 2   \* records returned by services.list(host, binary)
MaxServices       == 2   \* records returned by the unfiltered services.list()
MaxVMs            == 2   \* instances listed on the failed host

\* ------------------------------------------------------- program constants
UP          == 0
DOWN        == 1
UNREACHABLE == 2
DefaultWaitTimeout == 10
SleepInterval      == 3
ExitNoop     == 0    \* sys.exit(0)
ExitFatal    == -1   \* sys.exit(-1)
ExitUncaught == 1    \* interpreter status after an uncaught exception
ManualMigration == "VM is in ERROR or UNKNOWN status, needs manual migration"
\* str(e) of the exceptions the loop body can catch
ApiError           == "error raised by the compute API"
IndexError         == "list index out of range"
TimedeltaTypeError == "unsupported type for timedelta seconds component: str"

\* ------------------------------------------------------------ Python values
\* argparse delivers type=str arguments as strings; the module constants are
\* integers.  Python's == between a str and an int is False, so a value keeps
\* its type here and equality is equality of type and payload.
PyStr(s) == [type |-> "str", str |-> s, num |-> 0]
PyInt(n) == [type |-> "int", str |-> "", num |-> n]

\* x in list
PyIn(x, list) == \E k \in DOMAIN list : list[k] = x

SeqsUpTo(S, n) == UNION {[1..k -> S] : k \in 0..n}

\* ------------------------------------------------------------- environment
FailedHost == "compute-07"
Hosts      == {"compute-07", "compute-03", "compute-09"}
Binaries   == {"nova-compute", "nova-scheduler"}
ServiceStates == {"up", "down"}
Statuses   == {"ACTIVE", "REBUILD"}

\* Instances 1..MaxVMs may be listed on the failed host; one more instance
\* lives elsewhere and bears the same name as instance 1.
VmNames    == <<"vm-a", "vm-b", "vm-c", "vm-d">>
VmIds      == 1..MaxVMs
Namesake   == MaxVMs + 1
NameOf(id) == IF id = Namesake THEN VmNames[1] ELSE VmNames[id]
InstanceIds == VmIds \cup {Namesake}

StateArgs     == {"UP", "DOWN", "UNREACHABLE"}
StateTypeArgs == {"HARD", "SOFT"}
\* --wait-timeout has no type=: the default is the integer 10, a value given
\* on the command line stays a string.
WaitTimeoutArgs == {PyInt(DefaultWaitTimeout), PyStr("30")}

Args == [compute_host : {FailedHost},
         state : {PyStr(s) : s \in StateArgs},
         state_type : StateTypeArgs,
         unreachable_is_down : BOOLEAN,
         wait_timeout : WaitTimeoutArgs]

VARIABLES
  pc,              \* position of the script
  exit_code,       \* process exit status, meaningful when pc = "exit"
  args,            \* parsed command line
  down_states,     \* list of state ids that count as down
  service_state,   \* result of services.list(host, binary), after pop()
  service_reply,   \* what that query returned (history)
  vms,             \* instances listed on the failed host
  targets,         \* target list
  pool_healthy,    \* every record taken into the target list had state 'up'
  fatal,           \* the setup call that raised, "" when none did
  results,         \* {'success': [...], 'failures': [...]}
  idx,             \* position of the for loop in vms
  target,          \* target of the current instance
  cvm,             \* last result of servers.list(name)
  start,           \* start of the wait
  now,             \* the clock, read relative to the moment start was taken
  status,          \* the cloud: status of the instance being evacuated
  identity_calls,  \* client constructions (keystone credentials handed over)
  compute_calls,   \* operations requested through the nova client so far
  evacuate_calls,  \* evacuate calls issued: <<instance id, target>>
  reported,        \* the final report line was written
  hist             \* history of the current instance's attempt

vars == <<pc, exit_code, args, down_states, service_state, service_reply, vms,
          targets, pool_healthy, fatal, results, idx, target, cvm, start, now,
          status, identity_calls, compute_calls, evacuate_calls, reported, hist>>

loopVars == <<idx, target, cvm, start, now, status, evacuate_calls,
              reported, hist>>
setupVars == <<service_state, service_reply, vms, targets, pool_healthy, fatal>>

\* evac_ok: the evacuate call returned; queries_ok: every status query so far
\* returned with the instance itself as first record; active_in_time: the status is ACTIVE and became so
\* before the wait timeout elapsed; active_in_window: the status was ACTIVE at
\* some moment of the wait window; queries: status queries made; error: str(e)
\* of the exception raised in the pass, "" when none was; vanished: a status
\* query returned no record; saw_active: a status query returned a first
\* record with status ACTIVE; own_active: the instance itself was ACTIVE when
\* a status query was answered.
NoHist == [evac_ok |-> FALSE, queries_ok |-> TRUE,
           active_in_time |-> FALSE, active_in_window |-> FALSE, queries |-> 0,
           error |-> "", vanished |-> FALSE, saw_active |-> FALSE,
           own_active |-> FALSE]

Init ==
  /\ pc = "gate"
  /\ exit_code = 0
  /\ args \in Args
  /\ down_states = <<>>
  /\ service_state = <<>>
  /\ service_reply = [raised |-> FALSE, value |-> <<>>]
  /\ vms = <<>>
  /\ targets = <<>>
  /\ pool_healthy = TRUE
  /\ fatal = ""
  /\ results = [success |-> <<>>, failures |-> <<>>]
  /\ idx = 0
  /\ target = ""
  /\ cvm = <<>>
  /\ start = 0
  /\ now = 0
  /\ status = "ACTIVE"
  /\ identity_calls = 0
  /\ compute_calls = {}
  /\ evacuate_calls = <<>>
  /\ reported = FALSE
  /\ hist = NoHist

Exit(code) == pc' = "exit" /\ exit_code' = code

\* ------------------------------------------------------------- alarm gate
\* down_states = [DOWN]; if args.unreachable_is_down: append(UNREACHABLE)
DownStates(a) ==
  <<PyInt(DOWN)>> \o (IF a.unreachable_is_down THEN <<PyInt(UNREACHABLE)>> ELSE <<>>)

\* GateSkips with the state compared by its name's id, the 'and' kept
GateSkipsByStateId(a, ds) ==
  /\ a.state_type # "HARD"
  /\ ~PyIn(PyInt(CASE a.state.str = "UP" -> UP
                    [] a.state.str = "DOWN" -> DOWN
                    [] OTHER -> UNREACHABLE), ds)

\* if args.state_type != 'HARD' and args.state not in down_states: exit(0)
GateSkips(a, ds) == a.state_type # "HARD" /\ ~PyIn(a.state, ds)

AlarmGate ==
  /\ pc = "gate"
  /\ down_states' = DownStates(args)
  /\ IF GateSkips(args, DownStates(args))
       THEN Exit(ExitNoop)
       ELSE pc' = "auth" /\ UNCHANGED exit_code
  /\ UNCHANGED <<args, results, identity_calls, compute_calls>>
  /\ UNCHANGED setupVars /\ UNCHANGED loopVars

\* nova = nclient.Client(...), or exit(-1) when it raises
Authenticate ==
  /\ pc = "auth"
  /\ identity_calls' = identity_calls + 1
  /\ \E raised \in BOOLEAN :
       IF raised THEN Exit(ExitFatal) /\ fatal' = "nclient.Client"
                 ELSE pc' = "check_service" /\ UNCHANGED <<exit_code, fatal>>
  /\ UNCHANGED <<args, down_states, results, compute_calls>>
  /\ UNCHANGED <<service_state, service_reply, vms, targets, pool_healthy>>
  /\ UNCHANGED loopVars

\* ------------------------------------------------------------ health gate
HostServiceRecords ==
  {[binary |-> "nova-compute", host |-> FailedHost, state |-> s] : s \in ServiceStates}
HostQueryReplies ==
  {[raised |-> TRUE, value |-> <<>>]} \cup
  {[raised |-> FALSE, value |-> v] : v \in SeqsUpTo(HostServiceRecords, MaxServiceRecords)}

\* list.pop(): the last element, and the list without it
Pop(list) == [item |-> list[Len(list)], rest |-> SubSeq(list, 1, Len(list) - 1)]

\* ServiceCheckPasses with 'len(service_state) < 1' as the count test
ServiceCheckPassesAtLeastOne(reply) ==
  /\ ~reply.raised
  /\ Len(reply.value) >= 1
  /\ reply.value[Len(reply.value)].state = "down"

\* the gate passes when exactly one record came back and it is 'down'
ServiceCheckPasses(reply) ==
  /\ ~reply.raised
  /\ Len(reply.value) = 1
  /\ Pop(reply.value).item.state = "down"

CheckService ==
  /\ pc = "check_service"
  /\ compute_calls' = compute_calls \cup {"services.list(host, binary)"}
  /\ \E reply \in HostQueryReplies :
       /\ service_reply' = reply
       /\ fatal' = IF reply.raised THEN "services.list(host, binary)" ELSE fatal
       /\ IF ServiceCheckPasses(reply)
            THEN /\ service_state' = Pop(reply.value).rest
                 /\ pc' = "list_vms" /\ UNCHANGED exit_code
            ELSE /\ service_state' =
                      IF ~reply.raised /\ Len(reply.value) = 1
                        THEN Pop(reply.value).rest ELSE reply.value
                 /\ Exit(ExitFatal)
  /\ UNCHANGED <<args, down_states, results, identity_calls, vms, targets,
                 pool_healthy>>
  /\ UNCHANGED loopVars

\* ------------------------------------------------------ instance listing
\* vms = nova.servers.list(search_opts={'host': compute_host}), or exit(-1)
HostListings == {[k \in 1..n |-> k] : n \in 0..MaxVMs}

\* ListVMs with the exception of the listing swallowed: no instance, go on
ListVMsSwallows ==
  /\ pc = "list_vms"
  /\ compute_calls' = compute_calls \cup {"servers.list(host)"}
  /\ \E raised \in BOOLEAN :
       IF raised
         THEN fatal' = "servers.list(host)" /\ vms' = <<>>
         ELSE (\E l \in HostListings : vms' = l) /\ UNCHANGED fatal
  /\ pc' = "build_targets"
  /\ UNCHANGED <<exit_code, args, down_states, results, identity_calls,
                 service_state, service_reply, targets, pool_healthy>>
  /\ UNCHANGED loopVars

ListVMs ==
  /\ pc = "list_vms"
  /\ compute_calls' = compute_calls \cup {"servers.list(host)"}
  /\ \E raised \in BOOLEAN :
       IF raised
         THEN Exit(ExitFatal) /\ fatal' = "servers.list(host)" /\ UNCHANGED vms
         ELSE /\ \E l \in HostListings : vms' = l
              /\ pc' = "build_targets" /\ UNCHANGED <<exit_code, fatal>>
  /\ UNCHANGED <<args, down_states, results, identity_calls, service_state,
                 service_reply, targets, pool_healthy>>
  /\ UNCHANGED loopVars

\* ------------------------------------------------------------ target list
ServiceRecords == [binary : Binaries, host : Hosts, state : ServiceStates]
ServiceLists   == SeqsUpTo(ServiceRecords, MaxServices)

\* IsTarget without the test on the host
IsTargetAnyHost(service, compute_host) == service.binary = "nova-compute"

\* if service.binary == 'nova-compute' and service.host != args.compute_host
IsTarget(service, compute_host) ==
  service.binary = "nova-compute" /\ service.host # compute_host

RECURSIVE FilterTargets(_, _)
FilterTargets(list, compute_host) ==
  IF list = <<>> THEN <<>>
  ELSE (IF IsTarget(Head(list), compute_host) THEN <<Head(list).host>> ELSE <<>>)
       \o FilterTargets(Tail(list), compute_host)

\* the records the filter keeps all have state 'up'
KeptAreUp(list, compute_host) ==
  \A k \in DOMAIN list : IsTarget(list[k], compute_host) => list[k].state = "up"

BuildTargets ==
  /\ pc = "build_targets"
  /\ compute_calls' = compute_calls \cup {"services.list()"}
  /\ \E raised \in BOOLEAN :
       IF raised
         THEN /\ Exit(ExitFatal) /\ fatal' = "services.list()"
              /\ UNCHANGED <<targets, pool_healthy>>
         ELSE /\ \E list \in ServiceLists :
                   /\ targets' = FilterTargets(list, args.compute_host)
                   /\ pool_healthy' = KeptAreUp(list, args.compute_host)
              /\ pc' = "loop" /\ UNCHANGED <<exit_code, fatal>>
  /\ UNCHANGED <<args, down_states, results, identity_calls, service_state,
                 service_reply, vms>>
  /\ UNCHANGED loopVars

\* -------------------------------------------------------- evacuation loop
\* random.choice(seq): any element, IndexError on an empty sequence
random_choice(seq) ==
  IF seq = <<>> THEN {[raised |-> TRUE, value |-> ""]}
  ELSE {[raised |-> FALSE, value |-> seq[k]] : k \in DOMAIN seq}

cur == vms[idx]

\* AddSuccess recording the head of the target list, not the chosen target
AddSuccessFirstTarget(name, t) ==
  results' = [results EXCEPT !.success = Append(@, <<name, targets[1]>>)]

AddSuccess(name, t) ==
  results' = [results EXCEPT !.success = Append(@, <<name, t>>)]
AddFailure(name, reason) ==
  results' = [results EXCEPT !.failures = Append(@, <<name, reason>>)]

\* NextVM with random.choice moved inside the try: its IndexError is caught
NextVMChoiceInTry ==
  /\ pc = "loop"
  /\ idx < Len(vms)
  /\ idx' = idx + 1 /\ hist' = NoHist
  /\ \E c \in random_choice(targets) :
       IF c.raised
         THEN /\ AddFailure(NameOf(vms[idx + 1]), IndexError)
              /\ UNCHANGED <<pc, target>>
         ELSE /\ target' = c.value /\ pc' = "evacuate" /\ UNCHANGED results
  /\ UNCHANGED <<exit_code, args, down_states, identity_calls, compute_calls,
                 cvm, start, now, status, evacuate_calls, reported>>
  /\ UNCHANGED setupVars

\* NextVM taking the chosen target out of the list (a round robin by removal)
NextVMPopsTarget ==
  /\ pc = "loop"
  /\ idx < Len(vms)
  /\ IF targets = <<>>
       THEN Exit(ExitUncaught) /\ UNCHANGED <<idx, target, hist, targets>>
       ELSE /\ \E k \in DOMAIN targets :
                 /\ target' = targets[k]
                 /\ targets' = SubSeq(targets, 1, k - 1) \o
                                SubSeq(targets, k + 1, Len(targets))
            /\ idx' = idx + 1 /\ hist' = NoHist
            /\ pc' = "evacuate" /\ UNCHANGED exit_code
  /\ UNCHANGED <<args, down_states, results, identity_calls, compute_calls,
                 cvm, start, now, status, evacuate_calls, reported>>
  /\ UNCHANGED <<service_state, service_reply, vms, pool_healthy, fatal>>

\* for vm in vms: target = random.choice(targets)   (outside the try)
NextVM ==
  /\ pc = "loop"
  /\ idx < Len(vms)
  /\ \E c \in random_choice(targets) :
       IF c.raised
         THEN Exit(ExitUncaught) /\ UNCHANGED <<idx, target, hist>>
         ELSE /\ idx' = idx + 1 /\ target' = c.value /\ hist' = NoHist
              /\ pc' = "evacuate" /\ UNCHANGED exit_code
  /\ UNCHANGED <<args, down_states, results, identity_calls, compute_calls,
                 cvm, start, now, status, evacuate_calls, reported>>
  /\ UNCHANGED setupVars

\* the loop is over: the report line, and the script ends
Report ==
  /\ pc = "loop"
  /\ idx = Len(vms)
  /\ reported' = TRUE
  /\ Exit(ExitNoop)
  /\ UNCHANGED <<args, down_states, results, identity_calls, compute_calls,
                 idx, target, cvm, start, now, status, evacuate_calls, hist>>
  /\ UNCHANGED setupVars

\* The end of one pass of the loop body.  cvm, start and the clock reading are
\* written again before the next pass reads them; they are cleared here so
\* that passes which differ only in these leftovers are one state.
EndPass ==
  /\ pc' = "loop"
  /\ cvm' = <<>> /\ start' = 0 /\ now' = 0

\* Caught without the append: the exception is dropped
CaughtSilently(reason) ==
  /\ UNCHANGED results
  /\ EndPass

\* except Exception as e: results['failures'].append((vm.name, str(e)))
Caught(reason) ==
  /\ AddFailure(NameOf(cur), reason)
  /\ EndPass

\* Evacuate with one more attempt when the call raises
EvacuateRetries ==
  /\ pc = "evacuate"
  /\ compute_calls' = compute_calls \cup {"evacuate"}
  /\ \E raised \in BOOLEAN :
       IF raised
         THEN /\ evacuate_calls' =
                   Append(Append(evacuate_calls, <<cur, target>>), <<cur, target>>)
              /\ Caught(ApiError)
              /\ hist' = [hist EXCEPT !.error = ApiError]
              /\ UNCHANGED status
         ELSE /\ evacuate_calls' = Append(evacuate_calls, <<cur, target>>)
              /\ \E s \in Statuses :
                   /\ status' = s
                   /\ hist' = [hist EXCEPT !.evac_ok = TRUE,
                                           !.active_in_time = (s = "ACTIVE")]
              /\ pc' = "first_read" /\ UNCHANGED <<results, cvm, start, now>>
  /\ UNCHANGED <<exit_code, args, down_states, identity_calls, idx, target, reported>>
  /\ UNCHANGED setupVars

\* success = False; vm.evacuate(target, True)
Evacuate ==
  /\ pc = "evacuate"
  /\ compute_calls' = compute_calls \cup {"evacuate"}
  /\ evacuate_calls' = Append(evacuate_calls, <<cur, target>>)
  /\ \E raised \in BOOLEAN :
       IF raised
         THEN /\ Caught(ApiError)
              /\ hist' = [hist EXCEPT !.error = ApiError]
              /\ UNCHANGED status
         ELSE /\ \E s \in Statuses :
                   /\ status' = s
                   /\ hist' = [hist EXCEPT !.evac_ok = TRUE,
                                           !.active_in_time = (s = "ACTIVE")]
              /\ pc' = "first_read" /\ UNCHANGED <<results, cvm, start, now>>
  /\ UNCHANGED <<exit_code, args, down_states, identity_calls, idx, target, reported>>
  /\ UNCHANGED setupVars

\* nova.servers.list(search_opts={'name': vm.name}): the instances bearing the
\* name that the API still lists, in the order the API returns them
Matching(id) == {j \in InstanceIds : NameOf(j) = NameOf(id)}
Orderings(S) ==
  {f \in [1..Cardinality(S) -> S] : \A a, b \in 1..Cardinality(S) : a # b => f[a] # f[b]}
\* the namesake runs elsewhere and stays ACTIVE
StatusOf(j, id) == IF j = id THEN status ELSE "ACTIVE"
NameQueryReplies(id) ==
  {[raised |-> TRUE, value |-> <<>>]} \cup
  {[raised |-> FALSE,
    value |-> [k \in DOMAIN f |-> [id |-> f[k], status |-> StatusOf(f[k], id)]]] :
      f \in UNION {Orderings(S) : S \in SUBSET Matching(id)}}

OwnFirst(reply, id) ==
  ~reply.raised /\ reply.value # <<>> /\ reply.value[1].id = id

\* what one answer of nova.servers.list(name) adds to the history of the pass
Answered(h, reply, id) ==
  [h EXCEPT
     !.queries = @ + 1,
     !.queries_ok = @ /\ OwnFirst(reply, id),
     !.error = IF reply.raised THEN ApiError ELSE @,
     !.vanished = @ \/ (~reply.raised /\ reply.value = <<>>),
     !.saw_active = @ \/ (/\ ~reply.raised /\ reply.value # <<>>
                          /\ reply.value[1].status = "ACTIVE"),
     !.own_active = @ \/ (~reply.raised /\ status = "ACTIVE")]

\* datetime.now() < start + timedelta(seconds=wait_timeout), for a number
InWindow(t, from, timeout) == t < from + timeout.num

\* start = datetime.now(); cvm = nova.servers.list(name)
FirstRead ==
  /\ pc = "first_read"
  /\ compute_calls' = compute_calls \cup {"servers.list(name)"}
  /\ \E reply \in NameQueryReplies(cur) :
       /\ hist' = [Answered(hist, reply, cur) EXCEPT
            !.active_in_window =
               /\ status = "ACTIVE"
               /\ args.wait_timeout.type = "int"
               /\ InWindow(0, 0, args.wait_timeout)]
       /\ IF reply.raised
            THEN Caught(ApiError)
            ELSE /\ start' = 0 /\ now' = 0
                 /\ cvm' = reply.value
                 /\ pc' = "while" /\ UNCHANGED results
  /\ UNCHANGED <<exit_code, args, down_states, identity_calls, idx, target,
                 status, evacuate_calls, reported>>
  /\ UNCHANGED setupVars

\* while datetime.now() < start + timedelta(seconds=args.wait_timeout):
\*   if cvm[0].status == 'ACTIVE': results['success'].append(...); break
WhileTest ==
  /\ pc = "while"
  /\ IF args.wait_timeout.type # "int"
       THEN /\ Caught(TimedeltaTypeError)
            /\ hist' = [hist EXCEPT !.error = TimedeltaTypeError]
       ELSE IF InWindow(now, start, args.wait_timeout)
         THEN IF cvm = <<>>
                THEN /\ Caught(IndexError)
                     /\ hist' = [hist EXCEPT !.error = IndexError]
                ELSE IF cvm[1].status = "ACTIVE"
                  THEN /\ AddSuccess(NameOf(cur), target)
                       /\ pc' = "final" /\ UNCHANGED <<cvm, start, now, hist>>
                  ELSE /\ pc' = "sleep"
                       /\ UNCHANGED <<results, cvm, start, now, hist>>
         ELSE pc' = "final" /\ UNCHANGED <<results, cvm, start, now, hist>>
  /\ UNCHANGED <<exit_code, args, down_states, identity_calls, compute_calls,
                 idx, target, status, evacuate_calls, reported>>
  /\ UNCHANGED setupVars

\* Sleep with start taken again after the sleep
SleepRestartsWait ==
  /\ pc = "sleep"
  /\ now' = now + SleepInterval
  /\ start' = now + SleepInterval
  /\ pc' = "reread"
  /\ UNCHANGED <<exit_code, args, down_states, results, identity_calls,
                 compute_calls, idx, target, cvm, status, evacuate_calls,
                 reported, hist>>
  /\ UNCHANGED setupVars

\* time.sleep(3)
Sleep ==
  /\ pc = "sleep"
  /\ now' = now + SleepInterval
  /\ pc' = "reread"
  /\ UNCHANGED <<exit_code, args, down_states, results, identity_calls,
                 compute_calls, idx, target, cvm, start, status, evacuate_calls,
                 reported, hist>>
  /\ UNCHANGED setupVars

\* cvm = nova.servers.list(name) at the end of the loop body
ReRead ==
  /\ pc = "reread"
  /\ compute_calls' = compute_calls \cup {"servers.list(name)"}
  /\ \E reply \in NameQueryReplies(cur) :
       /\ hist' = Answered(hist, reply, cur)
       /\ IF reply.raised
            THEN Caught(ApiError)
            ELSE /\ cvm' = reply.value
                 /\ pc' = "while" /\ UNCHANGED <<results, start, now>>
  /\ UNCHANGED <<exit_code, args, down_states, identity_calls, idx, target,
                 status, evacuate_calls, reported>>
  /\ UNCHANGED setupVars

\* FinalCheck guarded by 'if cvm and ...': an empty answer records nothing
FinalCheckSkipsEmpty ==
  /\ pc = "final"
  /\ IF cvm # <<>> /\ cvm[1].status # "ACTIVE"
       THEN AddFailure(NameOf(cur), ManualMigration)
       ELSE UNCHANGED results
  /\ EndPass
  /\ UNCHANGED <<exit_code, args, down_states, identity_calls, compute_calls,
                 idx, target, status, evacuate_calls, reported, hist>>
  /\ UNCHANGED setupVars

\* if cvm[0].status != 'ACTIVE': results['failures'].append(...)
FinalCheck ==
  /\ pc = "final"
  /\ IF cvm = <<>>
       THEN /\ Caught(IndexError)
            /\ hist' = [hist EXCEPT !.error = IndexError]
       ELSE /\ IF cvm[1].status # "ACTIVE"
                 THEN AddFailure(NameOf(cur), ManualMigration)
                 ELSE UNCHANGED results
            /\ EndPass
            /\ UNCHANGED hist
  /\ UNCHANGED <<exit_code, args, down_states, identity_calls, compute_calls,
                 idx, target, status, evacuate_calls, reported>>
  /\ UNCHANGED setupVars

\* the cloud: the instance being waited for changes its status
StatusChange ==
  /\ pc \in {"first_read", "while", "sleep", "reread", "final"}
  /\ \E s \in Statuses \ {status} :
       LET inside == \/ pc = "first_read"
                     \/ /\ args.wait_timeout.type = "int"
                        /\ InWindow(now, start, args.wait_timeout)
       IN /\ status' = s
          /\ hist' = [hist EXCEPT
               !.active_in_time = (s = "ACTIVE" /\ inside),
               !.active_in_window = @ \/ (s = "ACTIVE" /\ pc # "first_read" /\ inside)]
  /\ UNCHANGED <<pc, exit_code, args, down_states, results, identity_calls,
                 compute_calls, idx, target, cvm, start, now,
                 evacuate_calls, reported>>
  /\ UNCHANGED setupVars

Next ==
  \/ AlarmGate
  \/ Authenticate
  \/ CheckService
  \/ ListVMs
  \/ BuildTargets
  \/ NextVM
  \/ Report
  \/ Evacuate
  \/ FirstRead
  \/ WhileTest
  \/ Sleep
  \/ ReRead
  \/ FinalCheck
  \/ StatusChange

Spec == Init /\ [][Next]_vars

\* The steps of the script itself.  The interpreter runs the script on and
\* every call is assumed to return, so a step that can be taken is taken; the
\* cloud's status changes are under no such obligation.
ScriptStep ==
  \/ AlarmGate \/ Authenticate \/ CheckService \/ ListVMs \/ BuildTargets
  \/ NextVM \/ Report \/ Evacuate \/ FirstRead \/ WhileTest \/ Sleep
  \/ ReRead \/ FinalCheck

LiveSpec == Spec /\ WF_vars(ScriptStep)

\* ================================================================= claims
\* the run ended at the alarm gate: exit 0, nobody was contacted
NoOp ==
  /\ pc = "exit" /\ exit_code = ExitNoop
  /\ identity_calls = 0 /\ compute_calls = {}
  /\ evacuate_calls = <<>> /\ ~reported

\* the run went past the alarm gate, on to authentication
GatePassed == pc \notin {"gate", "exit"} \/ identity_calls > 0

\* the down-state set the event's state is meant to be looked up in
NamedDownStates(a) ==
  {"DOWN"} \cup (IF a.unreachable_is_down THEN {"UNREACHABLE"} ELSE {})

\* entries of a report list that name an instance
EntriesOf(list, name) == {k \in DOMAIN list : list[k][1] = name}
Entries(name) ==
  Cardinality(EntriesOf(results.success, name))
    + Cardinality(EntriesOf(results.failures, name))

\* the pass over the instance vms[idx] is over, hist is its history
PassOver == pc \in {"loop", "exit"} /\ idx >= 1

OneDownRecord(reply) ==
  ~reply.raised /\ Len(reply.value) = 1 /\ reply.value[1].state = "down"

\* C1: when a run that reached the loop with a non-empty target pool ends,
\* every listed instance has exactly one entry in successes and failures
\* together.
C1_ExactlyOneEntry ==
  (pc = "exit" /\ reported /\ targets # <<>>) =>
     \A k \in DOMAIN vms : Entries(NameOf(vms[k])) = 1

\* C2: an UNREACHABLE/HARD event passes the alarm gate if and only if the
\* unreachable-is-down flag is set; with the flag unset the run is a no-op
\* that exits 0.
C2_UnreachableHardIffFlag ==
  (pc # "gate" /\ args.state = PyStr("UNREACHABLE") /\ args.state_type = "HARD") =>
     IF args.unreachable_is_down THEN GatePassed ELSE NoOp

\* C3: an event whose state is not in the down-state set (UP/HARD in
\* particular) contacts neither the identity provider nor the compute API,
\* issues no evacuate call and exits 0.
C3_NotDownIsNoOp ==
  (pc # "gate" /\ args.state.str \notin NamedDownStates(args)) => NoOp

\* C4: an event whose state type is not HARD never passes the alarm gate,
\* whatever its state and the flag: exit 0, nobody contacted.
C4_NotHardIsNoOp ==
  (pc # "gate" /\ args.state_type # "HARD") => NoOp

C4_Witness ==
  /\ pc = "exit" /\ exit_code = ExitNoop
  /\ args.state_type = "SOFT" /\ args.state = PyStr("DOWN")

\* C5: an instance whose evacuate call and status queries succeeded and whose
\* status became ACTIVE strictly before the wait timeout elapsed ends in the
\* successes list, paired with its target.
C5_ActiveInTimeIsSuccess ==
  (/\ PassOver /\ args.wait_timeout.type = "int"
   /\ hist.evac_ok /\ hist.queries_ok /\ hist.active_in_time) =>
     \E k \in DOMAIN results.success :
        results.success[k] = <<NameOf(cur), target>>

\* C6: an instance whose evacuate call and status queries succeeded and whose
\* status was never ACTIVE within the wait timeout ends in the failures list
\* with the manual-migration reason.
C6_NeverActiveIsFailure ==
  (/\ PassOver /\ args.wait_timeout.type = "int"
   /\ hist.evac_ok /\ hist.queries_ok /\ ~hist.active_in_window) =>
     \E k \in DOMAIN results.failures :
        results.failures[k] = <<NameOf(cur), ManualMigration>>

\* C7: the instance listing, the pool build and every evacuate call happen
\* only after the service query for the failed host returned exactly one
\* record, in state 'down'; after any other answer the run has ended with a
\* non-zero exit status and no evacuate call.
C7_HealthGate ==
  /\ (\/ evacuate_calls # <<>>
      \/ "servers.list(host)" \in compute_calls
      \/ "services.list()" \in compute_calls) => OneDownRecord(service_reply)
  /\ ("services.list(host, binary)" \in compute_calls /\ ~OneDownRecord(service_reply)) =>
        /\ pc = "exit" /\ exit_code # 0
        /\ evacuate_calls = <<>> /\ ~reported

C7_Witness ==
  /\ pc = "exit" /\ exit_code = ExitFatal
  /\ ~service_reply.raised /\ Len(service_reply.value) = 2
  /\ service_reply.value[2].state = "down"

\* C8: a run whose target pool was built empty ends with a non-zero exit
\* status, not with exit 0 and a final report, however many instances are
\* listed.
C8_EmptyPoolIsFatal ==
  (pc = "exit" /\ "services.list()" \in compute_calls /\ targets = <<>>) =>
     (exit_code # 0 /\ ~reported)

\* C9: while the target pool is empty no evacuate call is issued and no entry
\* is added to successes or failures.
C9_EmptyPoolNoAttempt ==
  targets = <<>> =>
     /\ evacuate_calls = <<>>
     /\ results.success = <<>> /\ results.failures = <<>>

C9_Witness ==
  /\ pc = "exit" /\ exit_code = ExitUncaught
  /\ "services.list()" \in compute_calls
  /\ targets = <<>> /\ Len(vms) = MaxVMs

\* C10: the failed host is not in the target pool, is the target of no
\* evacuate call and of no success entry.
C10_NeverOwnTarget ==
  /\ \A k \in DOMAIN targets : targets[k] # args.compute_host
  /\ \A k \in DOMAIN evacuate_calls : evacuate_calls[k][2] # args.compute_host
  /\ \A k \in DOMAIN results.success : results.success[k][2] # args.compute_host

C10_Witness ==
  /\ Len(targets) = 2 /\ targets[1] # targets[2]
  /\ Len(evacuate_calls) = 2
  /\ Len(results.success) = 2

\* C11: every host in the target pool, and so every target of an evacuate
\* call, had its nova-compute service reported 'up' when the pool was built.
C11_PoolIsHealthy ==
  /\ targets # <<>> => pool_healthy
  /\ evacuate_calls # <<>> => pool_healthy

\* the instance of the current pass has a success entry
CurSucceeded == idx >= 1 /\ EntriesOf(results.success, NameOf(cur)) # {}

\* C12: an error raised for one instance becomes a failure entry carrying the
\* error text, and a run that issued an evacuate call ends with the report,
\* exit status 0 and one evacuate call for every listed instance.
C12_FailureNeverAborts ==
  /\ (pc = "exit" /\ evacuate_calls # <<>>) =>
        /\ exit_code = ExitNoop /\ reported
        /\ Len(evacuate_calls) = Len(vms)
  /\ (PassOver /\ hist.error # "") =>
        \E k \in DOMAIN results.failures :
           results.failures[k] = <<NameOf(cur), hist.error>>

C12_Witness ==
  /\ pc = "exit" /\ reported
  /\ Len(evacuate_calls) = 2 /\ Len(results.failures) = 2
  /\ results.failures[1][2] = ApiError

\* C13: an instance for which a status query returned no record ends with a
\* failure entry and no success entry, and the run goes on to the report and
\* exit status 0.
C13_VanishedIsFailure ==
  /\ (PassOver /\ hist.vanished) =>
        /\ EntriesOf(results.failures, NameOf(cur)) # {}
        /\ EntriesOf(results.success, NameOf(cur)) = {}
  /\ (pc = "exit" /\ hist.vanished) => (exit_code = ExitNoop /\ reported)

C13_Witness ==
  /\ pc = "exit" /\ reported
  /\ hist.vanished /\ hist.queries = 5 /\ hist.error = IndexError

\* C14: when authentication, the service query, the instance listing or the
\* service listing raises, the run has ended with a non-zero exit status, no
\* evacuate call, no recorded outcome and no report; after a failed
\* authentication no compute API operation was requested.
C14_FatalSetupAborts ==
  /\ fatal # "" =>
        /\ pc = "exit" /\ exit_code # ExitNoop
        /\ evacuate_calls = <<>> /\ ~reported
        /\ results.success = <<>> /\ results.failures = <<>>
  /\ fatal = "nclient.Client" => compute_calls = {}

C14_Witness ==
  /\ pc = "exit" /\ fatal = "services.list()" /\ Len(vms) = MaxVMs

\* C15: the k-th evacuate call is for the k-th listed instance and there are
\* no more calls than instances begun: at most one call per instance.
C15_EvacuateOncePerInstance ==
  /\ Len(evacuate_calls) <= idx
  /\ \A k \in DOMAIN evacuate_calls : evacuate_calls[k][1] = vms[k]

C15_Witness ==
  /\ pc = "exit" /\ Len(evacuate_calls) = 2
  /\ hist.queries = 5 /\ results.failures # <<>>
  /\ results.failures[1][2] = ApiError

\* C16: no evacuate call comes before the service listing, and once the
\* listing was made no step changes the target pool or lists the services
\* again.
C16_PoolFixed ==
  /\ [](evacuate_calls # <<>> => "services.list()" \in compute_calls)
  /\ [][("services.list()" \in compute_calls) =>
          (targets' = targets /\ pc' # "build_targets")]_vars

C16_Witness ==
  /\ pc = "exit" /\ reported
  /\ Len(targets) = 2 /\ targets[1] # targets[2]
  /\ Len(evacuate_calls) = 2 /\ evacuate_calls[1][2] # evacuate_calls[2][2]

\* the bound 1 + ceil(wait_timeout / 3) on the status queries of one wait
QueryBound ==
  IF args.wait_timeout.type = "int"
    THEN 1 + (args.wait_timeout.num + SleepInterval - 1) \div SleepInterval
    ELSE 1

\* C17: every run reaches its exit, and no wait makes more than
\* 1 + ceil(wait_timeout / 3) status queries.
C17_Terminates ==
  /\ <>(pc = "exit")
  /\ [](hist.queries <= QueryBound)

C17_Witness ==
  /\ pc = "exit" /\ reported /\ status # "ACTIVE"
  /\ hist.queries = QueryBound /\ hist.queries > 1
  /\ ~hist.saw_active /\ hist.error = ""

\* C18: every success entry pairs an instance with the target of that
\* instance's evacuate call, and the instance of the current pass has one
\* only after its evacuate call returned and a status query returned a first
\* record with status ACTIVE.
C18_SuccessHasEvidence ==
  /\ \A k \in DOMAIN results.success :
        \E j \in DOMAIN evacuate_calls :
           /\ NameOf(evacuate_calls[j][1]) = results.success[k][1]
           /\ evacuate_calls[j][2] = results.success[k][2]
  /\ CurSucceeded => (hist.evac_ok /\ hist.saw_active)

C18_Witness ==
  /\ Len(results.success) = 2
  /\ results.success[1][2] # results.success[2][2]
  /\ Len(targets) = 2 /\ target = targets[2]

\* C19: the instance of the current pass has a success entry only if the
\* instance itself was ACTIVE when one of its status queries was answered.
C19_OwnStatusDecides ==
  CurSucceeded => hist.own_active

====
